---------------------------- MODULE Spec2Model ----------------------------
(***************************************************************************)
(* Epsilon-greedy multi-armed bandit (package bandit).                     *)
(*                                                                         *)
(* Two variants of the EpsilonGreedy state object are modelled:            *)
(*   - src/epsilon_greedy.go : guarded by a sync.RWMutex   (Spec)          *)
(*   - src/greedy.go         : guarded by a sync.Mutex     (SpecG)         *)
(*                                                                         *)
(* float64 values are modelled as exact extended rationals <<num, den>>:   *)
(* den > 0 is a finite value in lowest terms, <<1,0>> is +Inf, <<-1,0>> is *)
(* -Inf and <<0,0>> is NaN (what a division by zero yields).  Rounding is  *)
(* not modelled.                                                           *)
(***************************************************************************)
EXTENDS Integers, Sequences, FiniteSets, TLC

(***************************************************************************)
(* Bounds of the model.                                                    *)
(***************************************************************************)
\* number of concurrent callers (goroutines)
NProcs == 2
\* largest number of arms passed to Init / NewEpsilonGreedy
MaxArms == 2
\* Update calls on valid arms between two (re)initialisations, RWMutex variant
MaxCount == 3
\* Update calls on valid arms, Mutex variant
GMaxCount == 3
\* Update calls on valid arms between two (re)initialisations, when the
\* callers hold on to slices
AMaxCount == 1

Procs == 1..NProcs

(***************************************************************************)
(* float64 arithmetic on extended rationals.                               *)
(***************************************************************************)
Abs(x) == IF x < 0 THEN -x ELSE x

Sign(x) == IF x < 0 THEN -1 ELSE IF x > 0 THEN 1 ELSE 0

RECURSIVE GCD(_, _)
GCD(a, b) == IF b = 0 THEN a ELSE GCD(b, a % b)

\* the value n/d in canonical form
Norm(n, d) ==
    IF d = 0 THEN <<Sign(n), 0>>
    ELSE LET g == GCD(Abs(n), Abs(d))
         IN  <<(Sign(d) * n) \div g, Abs(d) \div g>>

NaN    == <<0, 0>>
Zero   == <<0, 1>>
One    == <<1, 1>>
Half   == <<1, 2>>

IsNaN(x) == x = NaN
IsInf(x) == x[2] = 0 /\ x[1] # 0

\* float64(i) for an int i
ToFloat(i) == <<i, 1>>

\* x + y
FAdd(x, y) ==
    IF IsNaN(x) \/ IsNaN(y) THEN NaN
    ELSE IF IsInf(x) /\ IsInf(y) THEN (IF x = y THEN x ELSE NaN)
    ELSE IF IsInf(x) THEN x
    ELSE IF IsInf(y) THEN y
    ELSE Norm(x[1] * y[2] + y[1] * x[2], x[2] * y[2])

\* x - y
FSub(x, y) == FAdd(x, <<-y[1], y[2]>>)

\* x * y
FMul(x, y) ==
    IF IsNaN(x) \/ IsNaN(y) THEN NaN
    ELSE IF IsInf(x) \/ IsInf(y) THEN <<Sign(x[1]) * Sign(y[1]), 0>>
    ELSE Norm(x[1] * y[1], x[2] * y[2])

\* x / y
FDiv(x, y) ==
    IF IsNaN(x) \/ IsNaN(y) THEN NaN
    ELSE IF IsInf(x) /\ IsInf(y) THEN NaN
    ELSE IF IsInf(x) THEN <<Sign(x[1]) * (IF y[1] < 0 THEN -1 ELSE 1), 0>>
    ELSE IF IsInf(y) THEN Zero
    ELSE IF y[1] = 0 THEN <<Sign(x[1]), 0>>
    ELSE Norm(x[1] * y[2], x[2] * y[1])

\* x < y (false whenever an operand is NaN)
FLt(x, y) ==
    IF IsNaN(x) \/ IsNaN(y) THEN FALSE
    ELSE IF IsInf(x) /\ IsInf(y) THEN x[1] < y[1]
    ELSE x[1] * y[2] < y[1] * x[2]

\* x > y
FGt(x, y) == FLt(y, x)

\* x <= y
FLe(x, y) == (~IsNaN(x)) /\ (~IsNaN(y)) /\ ~FLt(y, x)


(***************************************************************************)
(* Error values returned by the package.                                   *)
(***************************************************************************)
ErrInvalidArms         == "ErrInvalidArms"
ErrArmsIndexOutOfRange == "ErrArmsIndexOutOfRange"
ErrInvalidReward       == "ErrInvalidReward"
ErrInvalidEpsilon      == "ErrInvalidEpsilon"
ErrInvalidLength       == "ErrInvalidLength"
\* the nil error
Nil   == "nil"
\* a run-time panic (index out of range, rand.Intn of a non-positive bound)
Panic == "panic"

(***************************************************************************)
(* Inputs the callers draw from.                                           *)
(***************************************************************************)
\* the sequence of len copies of v (Go slices are 0-based; index i of the
\* slice is element i+1 of the sequence)
Repeat(v, len) == [i \in 1..len |-> v]

\* make([]int, n)
MakeInts(n) == Repeat(0, n)

\* make([]float64, n)
MakeFloats(n) == Repeat(Zero, n)

EpsilonInputs == {<<-1, 2>>, Zero, One, <<3, 2>>}
CountInputs   == {Repeat(c, len) : c \in {-1, 0}, len \in 0..MaxArms}
RewardInputs  == {Repeat(Zero, len) : len \in 0..MaxArms}
ArmArgs       == {-1, 0, MaxArms - 1, MaxArms}
RewardArgs    == {<<-1, 1>>, Zero, One}
NArmsArgs     == 0..MaxArms
DrawArgs      == {Zero, One}

(***************************************************************************)
(* State.                                                                  *)
(***************************************************************************)
VARIABLES
    obj,        \* "none": no EpsilonGreedy value exists yet; "made": it exists
    Epsilon,    \* b.Epsilon
    Counts,     \* b.Counts
    Rewards,    \* b.Rewards
    N,          \* b.N (src/greedy.go only)
    writer,     \* the goroutine holding the lock exclusively, 0 when none
    readers,    \* the goroutines holding the lock shared (RWMutex only)
    pc,         \* where each goroutine is in the method it runs
    args,       \* the arguments of the call each goroutine runs
    loc,        \* the local variables of the call each goroutine runs
    ret,        \* the value the call is about to return
    newCall,    \* history: the last NewEpsilonGreedy call and its result
    pre,        \* history: Epsilon, Counts, Rewards when the call took its lock
    ready,      \* history: NewEpsilonGreedy or Init has succeeded
    gZero,      \* history: per arm, it started with count 0 and mean 0
    gK,         \* history: per arm, number of Update calls that returned nil
    gSum,       \* history: per arm, sum of the rewards of those calls
    shared,     \* the caller holds slices it passed to NewEpsilonGreedy, and
                \* they are still the arrays of b.Counts / b.Rewards
    kept,       \* the slices the caller keeps of what GetCounts / GetRewards
                \* returned
    queue       \* the goroutines blocked in Lock or RLock, in order of arrival

vars == <<obj, Epsilon, Counts, Rewards, N, writer, readers, pc, args, loc, ret,
          newCall, pre, ready, gZero, gK, gSum, shared, kept, queue>>

object  == <<obj, Epsilon, Counts, Rewards, N>>
history == <<ready, gZero, gK, gSum>>
caller  == <<shared, kept>>

\* a slice the caller holds: either it shares its array with the slice of the
\* object (alias), or it has an array of its own with the elements val
NilSlice == [alias |-> FALSE, val |-> <<>>]

\* a slice that shares the array of s
Share(s) == [alias |-> TRUE, val |-> <<>>]

\* sCopy := make([]T, len(s)); copy(sCopy, s)
Copy(s) == [alias |-> FALSE, val |-> s]

\* the elements of the caller's slice c, cur being the slice of the object
Elems(c, cur) == IF c.alias THEN cur ELSE c.val

\* the object's slice cur is replaced: a caller's slice that shared its array
\* keeps the old array
Detach(c, cur) == IF c.alias THEN [alias |-> FALSE, val |-> cur] ELSE c

NoShare == [counts |-> FALSE, rewards |-> FALSE]
NoKept  == [counts |-> NilSlice, rewards |-> NilSlice]

NoArgs == [op |-> "", arm |-> 0, reward |-> Zero, nArms |-> 0, prob |-> Zero]

\* the method called and its arguments
InitArgs(nArms)         == [NoArgs EXCEPT !.op = "Init", !.nArms = nArms]
UpdateArgs(arm, reward) == [NoArgs EXCEPT !.op = "Update", !.arm = arm,
                                          !.reward = reward]
SelectArgs(probability) == [NoArgs EXCEPT !.op = "SelectArm",
                                          !.prob = probability]
GetCountsArgs           == [NoArgs EXCEPT !.op = "GetCounts"]
GetRewardsArgs          == [NoArgs EXCEPT !.op = "GetRewards"]
NoLoc  == [n |-> Zero, old |-> Zero, tmp |-> 0, newValue |-> Zero,
           mode |-> "", len |-> 0, i |-> 0, best |-> 0, bestValue |-> Zero]
NoRet  == [err |-> "", arm |-> -1, counts |-> NilSlice, rewards |-> NilSlice]
NoPre  == [Epsilon |-> Zero, Counts |-> <<>>, Rewards |-> <<>>]
NoCall == [epsilon |-> Zero, mismatch |-> FALSE, err |-> ""]

Snapshot == [Epsilon |-> Epsilon, Counts |-> Counts, Rewards |-> Rewards]

\* i is a valid index of the slice s; an access outside it panics
InRange(i, s) == 0 <= i /\ i < Len(s)
\* s[i] for a 0-based index i
At(s, i) == s[i + 1]
\* a store that also overwrites the elements below index i
PutUpTo(s, i, v) == [j \in 1..Len(s) |-> IF j <= i + 1 THEN v ELSE s[j]]

\* s[i] = v for a 0-based index i
Put(s, i, v) == [s EXCEPT ![i + 1] = v]

Init ==
    /\ obj = "none"
    /\ Epsilon = Zero
    /\ Counts = <<>>
    /\ Rewards = <<>>
    /\ N = 0
    /\ writer = 0
    /\ readers = {}
    /\ pc = [p \in Procs |-> "idle"]
    /\ args = [p \in Procs |-> NoArgs]
    /\ loc = [p \in Procs |-> NoLoc]
    /\ ret = [p \in Procs |-> NoRet]
    /\ newCall = NoCall
    /\ pre = [p \in Procs |-> NoPre]
    /\ ready = FALSE
    /\ gZero = <<>>
    /\ gK = <<>>
    /\ gSum = <<>>
    /\ shared = NoShare
    /\ kept = NoKept
    /\ queue = <<>>

(***************************************************************************)
(* sync.RWMutex, embedded in the EpsilonGreedy of src/epsilon_greedy.go.   *)
(***************************************************************************)
\* a Lock that does not wait for the goroutine holding the lock exclusively
CanLockIgnoringWriter == readers = {}

\* b.Lock() can return
CanLock == writer = 0 /\ readers = {}

\* an RLock that does not wait for the goroutine holding the lock exclusively
CanRLockIgnoringWriter == TRUE

\* b.RLock() can return
CanRLock == writer = 0

\* p's call reaches Lock or RLock and need not wait behind another goroutine:
\* it has just called with no goroutine blocked, or it is the one blocked
\* longest in this call
Arrives(p, a) ==
    \/ pc[p] = "idle" /\ queue = <<>>
    \/ pc[p] = "waiting" /\ Head(queue) = p /\ args[p] = a

\* the blocked goroutines once p has the lock
Leave(p) == IF pc[p] = "waiting" THEN Tail(queue) ELSE queue

\* the method returns to its caller: its frame is gone
Return(p) ==
    /\ pc' = [pc EXCEPT ![p] = "idle"]
    /\ args' = [args EXCEPT ![p] = NoArgs]
    /\ loc' = [loc EXCEPT ![p] = NoLoc]
    /\ ret' = [ret EXCEPT ![p] = NoRet]
    /\ pre' = [pre EXCEPT ![p] = NoPre]

(***************************************************************************)
(* src/epsilon_greedy.go: construction.                                    *)
(***************************************************************************)
\* a check of epsilon that forgets the upper bound
BadEpsilonLowOnly(epsilon) == FLt(epsilon, Zero)

\* the check of epsilon in NewEpsilonGreedy
BadEpsilon(epsilon) == FLt(epsilon, Zero) \/ FGt(epsilon, One)

\* a check of the lengths that only rejects too many counts
BadLengthOneSided(counts, rewards) == Len(counts) > Len(rewards)

\* the check of the lengths in NewEpsilonGreedy
BadLength(counts, rewards) == Len(counts) # Len(rewards)

\* what newCall records of a call of NewEpsilonGreedy
Called(epsilon, counts, rewards, err) ==
    [epsilon |-> epsilon, mismatch |-> Len(counts) # Len(rewards), err |-> err]

\* NewEpsilonGreedy(epsilon, counts, rewards); holds tells whether the caller
\* holds on to the slices counts and rewards after the call
Construct(epsilon, counts, rewards, holds) ==
    /\ obj = "none"
    /\ IF BadEpsilon(epsilon)
       THEN /\ newCall' = Called(epsilon, counts, rewards, ErrInvalidEpsilon)
            /\ UNCHANGED <<object, history, caller>>
       ELSE IF BadLength(counts, rewards)
       THEN /\ newCall' = Called(epsilon, counts, rewards, ErrInvalidLength)
            /\ UNCHANGED <<object, history, caller>>
       ELSE /\ newCall' = Called(epsilon, counts, rewards, Nil)
            /\ obj' = "made"
            /\ Epsilon' = epsilon
            /\ Rewards' = rewards
            /\ Counts' = counts
            /\ UNCHANGED N
            /\ ready' = TRUE
            /\ gZero' = [i \in 1..Len(counts) |->
                            /\ counts[i] = 0
                            /\ i \in 1..Len(rewards)
                            /\ rewards[i] = Zero]
            /\ gK' = [i \in 1..Len(counts) |-> 0]
            /\ gSum' = [i \in 1..Len(counts) |-> Zero]
            /\ shared' = [counts |-> holds, rewards |-> holds]
            /\ UNCHANGED kept
    /\ UNCHANGED <<writer, readers, pc, args, loc, ret, pre>>
    /\ UNCHANGED queue

\* NewEpsilonGreedy called with slices the caller lets go of
NewEpsilonGreedy(epsilon, counts, rewards) ==
    Construct(epsilon, counts, rewards, FALSE)

\* NewEpsilonGreedy called with slices the caller holds on to
NewEpsilonGreedyHeld(epsilon, counts, rewards) ==
    Construct(epsilon, counts, rewards, TRUE)

\* &EpsilonGreedy{}: the zero value, to be initialised with Init
ZeroValue ==
    /\ obj = "none"
    /\ obj' = "made"
    /\ Epsilon' = Zero
    /\ Counts' = <<>>
    /\ Rewards' = <<>>
    /\ newCall' = NoCall
    /\ UNCHANGED <<N, writer, readers, pc, args, loc, ret, pre, history>>
    /\ UNCHANGED caller
    /\ UNCHANGED queue

(***************************************************************************)
(* src/epsilon_greedy.go: Init.                                            *)
(***************************************************************************)
\* p calls Init(nArms); b.Lock() returns
InitLock(p, nArms) ==
    /\ obj = "made" /\ Arrives(p, InitArgs(nArms))
    /\ CanLock
    /\ writer' = p
    /\ pc' = [pc EXCEPT ![p] = "init_check"]
    /\ args' = [args EXCEPT ![p] = InitArgs(nArms)]
    /\ pre' = [pre EXCEPT ![p] = Snapshot]
    /\ UNCHANGED <<object, readers, loc, ret, newCall, history>>
    /\ UNCHANGED caller
    /\ queue' = Leave(p)

\* a check of nArms that lets zero arms through
BadArmsNegativeOnly(nArms) == nArms < 0

\* nArms < 1
BadArms(nArms) == nArms < 1

\* if nArms < 1 { return ErrInvalidArms }
InitCheck(p) ==
    /\ pc[p] = "init_check"
    /\ IF BadArms(args[p].nArms)
       THEN /\ ret' = [ret EXCEPT ![p] = [NoRet EXCEPT !.err = ErrInvalidArms]]
            /\ pc' = [pc EXCEPT ![p] = "init_unlock"]
       ELSE /\ pc' = [pc EXCEPT ![p] = "init_counts"]
            /\ UNCHANGED ret
    /\ UNCHANGED <<object, writer, readers, args, loc, newCall, pre, history>>
    /\ UNCHANGED caller
    /\ UNCHANGED queue

\* b.Counts = make([]int, nArms)
InitCounts(p) ==
    /\ pc[p] = "init_counts"
    /\ Counts' = MakeInts(args[p].nArms)
    /\ shared' = [shared EXCEPT !.counts = FALSE]
    /\ kept' = [kept EXCEPT !.counts = Detach(@, Counts)]
    /\ pc' = [pc EXCEPT ![p] = "init_rewards"]
    /\ UNCHANGED <<obj, Epsilon, Rewards, N, writer, readers, args, loc, ret,
                   newCall, pre, history>>
    /\ UNCHANGED queue

\* b.Rewards = make([]float64, nArms); return nil
InitRewards(p) ==
    /\ pc[p] = "init_rewards"
    /\ Rewards' = MakeFloats(args[p].nArms)
    /\ shared' = [shared EXCEPT !.rewards = FALSE]
    /\ kept' = [kept EXCEPT !.rewards = Detach(@, Rewards)]
    /\ ret' = [ret EXCEPT ![p] = [NoRet EXCEPT !.err = Nil]]
    /\ pc' = [pc EXCEPT ![p] = "init_unlock"]
    /\ ready' = TRUE
    /\ gZero' = [i \in 1..args[p].nArms |-> TRUE]
    /\ gK' = [i \in 1..args[p].nArms |-> 0]
    /\ gSum' = [i \in 1..args[p].nArms |-> Zero]
    /\ UNCHANGED <<obj, Epsilon, Counts, N, writer, readers, args, loc, newCall,
                   pre>>
    /\ UNCHANGED queue

\* an Init that unlocks before return nil only, not on the error return
InitUnlockOnSuccessOnly(p) ==
    /\ pc[p] = "init_unlock"
    /\ writer' = IF ret[p].err = Nil THEN 0 ELSE writer
    /\ Return(p)
    /\ UNCHANGED <<object, readers, newCall, history, caller, queue>>

\* the deferred b.Unlock(); Init returns
InitUnlock(p) ==
    /\ pc[p] = "init_unlock"
    /\ writer' = 0
    /\ Return(p)
    /\ UNCHANGED <<object, readers, newCall, history>>
    /\ UNCHANGED caller
    /\ UNCHANGED queue


(***************************************************************************)
(* src/epsilon_greedy.go: Update.                                          *)
(***************************************************************************)
\* an update rule that weighs the old mean by n instead of n-1
NewMeanByN(old, n, reward) == FDiv(FAdd(FMul(old, n), reward), n)

\* (oldRewards*(n-1) + reward) / n
NewMean(old, n, reward) == FDiv(FAdd(FMul(old, FSub(n, One)), reward), n)

\* a bounds check that forgets the upper end
BadArmNegativeOnly(arm) == arm < 0

\* a bounds check that is off by one at the upper end
BadArmOffByOne(arm) == arm < 0 \/ arm > Len(Rewards)

\* chosenArm < 0 || chosenArm >= len(b.Rewards)
BadArm(arm) == arm < 0 \/ arm >= Len(Rewards)

\* a reward check with the wrong threshold
BadRewardBelowMinusOne(reward) == FLt(reward, <<-1, 1>>)

\* reward < 0
BadReward(reward) == FLt(reward, Zero)

\* the calls of Update(arm, ...) that have not returned yet
Updating(arm) ==
    {q \in Procs : /\ \/ pc[q] \in {"upd_check", "upd_inc", "upd_old",
                                    "upd_store", "upd_unlock", "g_inc_read",
                                    "g_inc_write", "g_read_n", "g_read_v",
                                    "g_lock", "g_store", "g_unlock"}
                      \/ pc[q] = "waiting" /\ args[q].op = "Update"
                   /\ args[q].arm = arm}

\* the sum of a sequence of numbers
RECURSIVE SumSeq(_)
SumSeq(s) == IF s = <<>> THEN 0 ELSE Head(s) + SumSeq(Tail(s))

\* the calls of Update on a valid index, returned or not, since the last
\* (re)initialisation
Updates ==
    SumSeq(gK) + Cardinality(UNION {Updating(i - 1) : i \in 1..Len(gK)})

\* the callers make at most MaxCount such calls between two
\* (re)initialisations
MayUpdate(arm) == InRange(arm, gK) => Updates < MaxCount

\* the same for the callers of src/greedy.go
GMayUpdate(arm) == InRange(arm, gK) => Updates < GMaxCount

\* p calls Update(arm, reward); b.Lock() returns
UpdateLock(p, arm, reward) ==
    /\ obj = "made" /\ Arrives(p, UpdateArgs(arm, reward))
    /\ pc[p] = "idle" => MayUpdate(arm)
    /\ CanLock
    /\ writer' = p
    /\ pc' = [pc EXCEPT ![p] = "upd_check"]
    /\ args' = [args EXCEPT ![p] = UpdateArgs(arm, reward)]
    /\ pre' = [pre EXCEPT ![p] = Snapshot]
    /\ UNCHANGED <<object, readers, loc, ret, newCall, history>>
    /\ UNCHANGED caller
    /\ queue' = Leave(p)

\* the two checks of Update
UpdateCheck(p) ==
    /\ pc[p] = "upd_check"
    /\ IF BadArm(args[p].arm)
       THEN /\ ret' = [ret EXCEPT ![p] =
                          [NoRet EXCEPT !.err = ErrArmsIndexOutOfRange]]
            /\ pc' = [pc EXCEPT ![p] = "upd_unlock"]
       ELSE IF BadReward(args[p].reward)
       THEN /\ ret' = [ret EXCEPT ![p] =
                          [NoRet EXCEPT !.err = ErrInvalidReward]]
            /\ pc' = [pc EXCEPT ![p] = "upd_unlock"]
       ELSE /\ pc' = [pc EXCEPT ![p] = "upd_inc"]
            /\ UNCHANGED ret
    /\ UNCHANGED <<object, writer, readers, args, loc, newCall, pre, history>>
    /\ UNCHANGED caller
    /\ UNCHANGED queue

\* b.Counts[chosenArm]++; n := float64(b.Counts[chosenArm])
UpdateInc(p) ==
    /\ pc[p] = "upd_inc"
    /\ IF InRange(args[p].arm, Counts)
       THEN /\ Counts' = Put(Counts, args[p].arm, At(Counts, args[p].arm) + 1)
            /\ loc' = [loc EXCEPT ![p].n = ToFloat(At(Counts', args[p].arm))]
            /\ pc' = [pc EXCEPT ![p] = "upd_old"]
            /\ UNCHANGED ret
       ELSE /\ ret' = [ret EXCEPT ![p] = [NoRet EXCEPT !.err = Panic]]
            /\ pc' = [pc EXCEPT ![p] = "upd_unlock"]
            /\ UNCHANGED <<Counts, loc>>
    /\ UNCHANGED <<obj, Epsilon, Rewards, N, writer, readers, args, newCall, pre,
                   history>>
    /\ UNCHANGED caller
    /\ UNCHANGED queue

\* oldRewards := b.Rewards[chosenArm]
UpdateOld(p) ==
    /\ pc[p] = "upd_old"
    /\ IF InRange(args[p].arm, Rewards)
       THEN /\ loc' = [loc EXCEPT ![p].old = At(Rewards, args[p].arm)]
            /\ pc' = [pc EXCEPT ![p] = "upd_store"]
            /\ UNCHANGED ret
       ELSE /\ ret' = [ret EXCEPT ![p] = [NoRet EXCEPT !.err = Panic]]
            /\ pc' = [pc EXCEPT ![p] = "upd_unlock"]
            /\ UNCHANGED loc
    /\ UNCHANGED <<object, writer, readers, args, newCall, pre, history>>
    /\ UNCHANGED caller
    /\ UNCHANGED queue

\* b.Rewards[chosenArm] = (oldRewards*(n-1) + reward) / n; return nil
UpdateStore(p) ==
    /\ pc[p] = "upd_store"
    /\ IF InRange(args[p].arm, Rewards)
       THEN /\ Rewards' = Put(Rewards, args[p].arm,
                              NewMean(loc[p].old, loc[p].n, args[p].reward))
            /\ ret' = [ret EXCEPT ![p] = [NoRet EXCEPT !.err = Nil]]
       ELSE /\ ret' = [ret EXCEPT ![p] = [NoRet EXCEPT !.err = Panic]]
            /\ UNCHANGED Rewards
    /\ pc' = [pc EXCEPT ![p] = "upd_unlock"]
    /\ UNCHANGED <<obj, Epsilon, Counts, N, writer, readers, args, loc, newCall,
                   pre, history>>
    /\ UNCHANGED caller
    /\ UNCHANGED queue

\* the deferred b.Unlock(); Update returns
UpdateUnlock(p) ==
    /\ pc[p] = "upd_unlock"
    /\ writer' = 0
    /\ IF ret[p].err = Nil /\ InRange(args[p].arm, gK)
       THEN /\ gK' = Put(gK, args[p].arm, At(gK, args[p].arm) + 1)
            /\ gSum' = Put(gSum, args[p].arm,
                           FAdd(At(gSum, args[p].arm), args[p].reward))
       ELSE UNCHANGED <<gK, gSum>>
    /\ Return(p)
    /\ UNCHANGED <<object, readers, newCall, ready, gZero>>
    /\ UNCHANGED caller
    /\ UNCHANGED queue

(***************************************************************************)
(* src/epsilon_greedy.go: SelectArm.                                       *)
(***************************************************************************)
\* the scan of maxMean from index i on, best being the index of the largest
\* mean seen so far: a later arm replaces it only when strictly larger
RECURSIVE maxScan(_, _, _)
maxScan(rewards, i, best) ==
    IF i >= Len(rewards) THEN best
    ELSE maxScan(rewards, i + 1,
                 IF FGt(At(rewards, i), At(rewards, best)) THEN i ELSE best)

\* maxMean(counts, rewards): the index of the first largest mean reward
maxMean(counts, rewards) == maxScan(rewards, 1, 0)

\* a decision rule that also exploits when the draw equals epsilon
ExploitOnEqual(probability) == ~FLt(probability, Epsilon)

\* probability > b.Epsilon
Exploit(probability) == FGt(probability, Epsilon)

\* p calls SelectArm(probability): b.RLock() returns and, the lock held
\* shared, the body exploits, or explores with rand.Intn
SelectArm(p, probability) ==
    /\ obj = "made" /\ Arrives(p, SelectArgs(probability))
    /\ CanRLock
    /\ readers' = readers \cup {p}
    /\ args' = [args EXCEPT ![p] = SelectArgs(probability)]
    /\ pre' = [pre EXCEPT ![p] = Snapshot]
    /\ IF Exploit(probability)
       THEN /\ loc' = [loc EXCEPT ![p].mode = "exploit"]
            /\ IF Len(Rewards) = 0
               \* maxMean of no arms: it panics or returns an index
               THEN \/ ret' = [ret EXCEPT ![p] = [NoRet EXCEPT !.err = Panic]]
                    \/ ret' = [ret EXCEPT ![p] = [NoRet EXCEPT !.err = Nil,
                                                               !.arm = 0]]
               ELSE ret' = [ret EXCEPT ![p] =
                               [NoRet EXCEPT !.err = Nil,
                                             !.arm = maxMean(Counts, Rewards)]]
       ELSE /\ loc' = [loc EXCEPT ![p].mode = "explore"]
            /\ IF Len(Rewards) <= 0
               \* rand.Intn panics if its argument is <= 0
               THEN ret' = [ret EXCEPT ![p] = [NoRet EXCEPT !.err = Panic]]
               ELSE \E i \in 0..(Len(Rewards) - 1) :
                        ret' = [ret EXCEPT ![p] = [NoRet EXCEPT !.err = Nil,
                                                                !.arm = i]]
    /\ pc' = [pc EXCEPT ![p] = "sel_runlock"]
    /\ UNCHANGED <<object, writer, newCall, history>>
    /\ UNCHANGED caller
    /\ queue' = Leave(p)

\* a SelectArm that counts the arm it has selected
SelectRUnlockCounting(p) ==
    /\ pc[p] = "sel_runlock"
    /\ readers' = readers \ {p}
    /\ Counts' = IF InRange(ret[p].arm, Counts)
                 THEN Put(Counts, ret[p].arm, At(Counts, ret[p].arm) + 1)
                 ELSE Counts
    /\ Return(p)
    /\ UNCHANGED <<obj, Epsilon, Rewards, N, writer, newCall, history, caller>>
    /\ UNCHANGED queue

\* the deferred b.RUnlock(); SelectArm returns
SelectRUnlock(p) ==
    /\ pc[p] = "sel_runlock"
    /\ readers' = readers \ {p}
    /\ Return(p)
    /\ UNCHANGED <<object, writer, newCall, history>>
    /\ UNCHANGED caller
    /\ UNCHANGED queue

(***************************************************************************)
(* src/epsilon_greedy.go: GetCounts and GetRewards.                        *)
(***************************************************************************)
\* p calls GetCounts(): b.RLock() returns and, the lock held shared,
\* sCopy := make([]int, len(b.Counts)); copy(sCopy, b.Counts); return sCopy
GetCounts(p) ==
    /\ obj = "made" /\ Arrives(p, GetCountsArgs)
    /\ CanRLock
    /\ readers' = readers \cup {p}
    /\ args' = [args EXCEPT ![p] = GetCountsArgs]
    /\ pre' = [pre EXCEPT ![p] = Snapshot]
    /\ ret' = [ret EXCEPT ![p] = [NoRet EXCEPT !.err = Nil, !.counts = Copy(Counts)]]
    /\ pc' = [pc EXCEPT ![p] = "gc_runlock"]
    /\ UNCHANGED <<object, writer, loc, newCall, history>>
    /\ UNCHANGED caller
    /\ queue' = Leave(p)

\* the deferred b.RUnlock(); GetCounts returns
GetCountsRUnlock(p) ==
    /\ pc[p] = "gc_runlock"
    /\ readers' = readers \ {p}
    /\ Return(p)
    /\ UNCHANGED <<object, writer, newCall, history>>
    /\ UNCHANGED caller
    /\ UNCHANGED queue

\* p calls GetRewards(): b.RLock() returns and, the lock held shared,
\* sCopy := make([]float64, len(b.Rewards)); copy(sCopy, b.Rewards)
GetRewards(p) ==
    /\ obj = "made" /\ Arrives(p, GetRewardsArgs)
    /\ CanRLock
    /\ readers' = readers \cup {p}
    /\ args' = [args EXCEPT ![p] = GetRewardsArgs]
    /\ pre' = [pre EXCEPT ![p] = Snapshot]
    /\ ret' = [ret EXCEPT ![p] = [NoRet EXCEPT !.err = Nil,
                                               !.rewards = Copy(Rewards)]]
    /\ pc' = [pc EXCEPT ![p] = "gr_runlock"]
    /\ UNCHANGED <<object, writer, loc, newCall, history>>
    /\ UNCHANGED caller
    /\ queue' = Leave(p)

\* the deferred b.RUnlock(); GetRewards returns
GetRewardsRUnlock(p) ==
    /\ pc[p] = "gr_runlock"
    /\ readers' = readers \ {p}
    /\ Return(p)
    /\ UNCHANGED <<object, writer, newCall, history>>
    /\ UNCHANGED caller
    /\ UNCHANGED queue

(***************************************************************************)
(* The RWMutex variant: any number of calls by NProcs goroutines.          *)
(***************************************************************************)
Next ==
    \/ /\ obj = "none"
       /\ \E e \in EpsilonInputs, c \in CountInputs, r \in RewardInputs :
              NewEpsilonGreedy(e, c, r)
    \/ ZeroValue
    \/ \E p \in Procs, n \in NArmsArgs : InitLock(p, n)
    \/ \E p \in Procs : InitCheck(p)
    \/ \E p \in Procs : InitCounts(p)
    \/ \E p \in Procs : InitRewards(p)
    \/ \E p \in Procs : InitUnlock(p)
    \/ \E p \in Procs, a \in ArmArgs, r \in RewardArgs : UpdateLock(p, a, r)
    \/ \E p \in Procs : UpdateCheck(p)
    \/ \E p \in Procs : UpdateInc(p)
    \/ \E p \in Procs : UpdateOld(p)
    \/ \E p \in Procs : UpdateStore(p)
    \/ \E p \in Procs : UpdateUnlock(p)
    \/ \E p \in Procs, d \in DrawArgs : SelectArm(p, d)
    \/ \E p \in Procs : SelectRUnlock(p)
    \/ \E p \in Procs : GetCounts(p)
    \/ \E p \in Procs : GetCountsRUnlock(p)
    \/ \E p \in Procs : GetRewards(p)
    \/ \E p \in Procs : GetRewardsRUnlock(p)

Spec == Init /\ [][Next]_vars


(***************************************************************************)
(* src/greedy.go: the variant guarded by a sync.Mutex.  Only writer is     *)
(* used of the lock.  Statements that run outside the lock are separate    *)
(* steps, and Counts[chosenArm]++ is a read followed by a write.           *)
(***************************************************************************)
\* rand.Float64() returns a value in [0, 1)
FloatDraws == {Zero, Half}

\* what the callers of this variant pass
GEpsilonInputs == {Zero, Half}
GNArmsInputs   == -1..MaxArms
GArmArgs       == 0..MaxArms
GRewardArgs    == {Zero, One}

\* NewEpsilonGreedy(nArms, epsilonDecay)
GNewEpsilonGreedy(nArms, epsilonDecay) ==
    /\ obj = "none"
    /\ IF nArms < 0
       \* make panics on a negative length
       THEN /\ newCall' = [epsilon |-> epsilonDecay, mismatch |-> FALSE,
                           err |-> Panic]
            /\ UNCHANGED <<object, history>>
       ELSE /\ newCall' = [epsilon |-> epsilonDecay, mismatch |-> FALSE,
                           err |-> Nil]
            /\ obj' = "made"
            /\ N' = nArms
            /\ Epsilon' = epsilonDecay
            /\ Rewards' = MakeFloats(nArms)
            /\ Counts' = MakeInts(nArms)
            /\ ready' = TRUE
            /\ gZero' = [i \in 1..nArms |-> TRUE]
            /\ gK' = [i \in 1..nArms |-> 0]
            /\ gSum' = [i \in 1..nArms |-> Zero]
    /\ UNCHANGED <<writer, readers, pc, args, loc, ret, pre>>
    /\ UNCHANGED caller
    /\ UNCHANGED queue

\* newValue := (v*(n-1) + reward) / n
GNewValue(v, n, reward) == FDiv(FAdd(FMul(v, FSub(n, One)), reward), n)

\* a panic unwinds the call
GPanic(p) ==
    /\ ret' = [ret EXCEPT ![p] = [NoRet EXCEPT !.err = Panic]]
    /\ pc' = [pc EXCEPT ![p] = "g_return"]

\* p calls Update(chosenArm, reward)
GUpdateCall(p, arm, reward) ==
    /\ obj = "made" /\ pc[p] = "idle"
    /\ GMayUpdate(arm)
    /\ pc' = [pc EXCEPT ![p] = "g_inc_read"]
    /\ args' = [args EXCEPT ![p] = [NoArgs EXCEPT !.arm = arm,
                                                  !.reward = reward]]
    /\ UNCHANGED <<object, writer, readers, loc, ret, newCall, pre, history>>
    /\ UNCHANGED caller
    /\ UNCHANGED queue

\* b.Counts[chosenArm]++ : the read
GUpdateIncRead(p) ==
    /\ pc[p] = "g_inc_read"
    /\ IF InRange(args[p].arm, Counts)
       THEN /\ loc' = [loc EXCEPT ![p].tmp = At(Counts, args[p].arm)]
            /\ pc' = [pc EXCEPT ![p] = "g_inc_write"]
            /\ UNCHANGED ret
       ELSE /\ GPanic(p)
            /\ UNCHANGED loc
    /\ UNCHANGED <<object, writer, readers, args, newCall, pre, history>>
    /\ UNCHANGED caller
    /\ UNCHANGED queue

\* b.Counts[chosenArm]++ : the write
GUpdateIncWrite(p) ==
    /\ pc[p] = "g_inc_write"
    /\ Counts' = Put(Counts, args[p].arm, loc[p].tmp + 1)
    /\ pc' = [pc EXCEPT ![p] = "g_read_n"]
    /\ UNCHANGED <<obj, Epsilon, Rewards, N, writer, readers, args, loc, ret,
                   newCall, pre, history>>
    /\ UNCHANGED caller
    /\ UNCHANGED queue

\* n := float64(b.Counts[chosenArm])
GUpdateReadN(p) ==
    /\ pc[p] = "g_read_n"
    /\ loc' = [loc EXCEPT ![p].n = ToFloat(At(Counts, args[p].arm))]
    /\ pc' = [pc EXCEPT ![p] = "g_read_v"]
    /\ UNCHANGED <<object, writer, readers, args, ret, newCall, pre, history>>
    /\ UNCHANGED caller
    /\ UNCHANGED queue

\* v := float64(b.Rewards[chosenArm]); newValue := (v*(n-1) + reward) / n
GUpdateReadV(p) ==
    /\ pc[p] = "g_read_v"
    /\ IF InRange(args[p].arm, Rewards)
       THEN /\ loc' = [loc EXCEPT
                          ![p].newValue = GNewValue(At(Rewards, args[p].arm),
                                                    loc[p].n, args[p].reward)]
            /\ pc' = [pc EXCEPT ![p] = "g_lock"]
            /\ UNCHANGED ret
       ELSE /\ GPanic(p)
            /\ UNCHANGED loc
    /\ UNCHANGED <<object, writer, readers, args, newCall, pre, history>>
    /\ UNCHANGED caller
    /\ UNCHANGED queue

\* b.Lock()
GUpdateLock(p) ==
    /\ pc[p] = "g_lock"
    /\ writer = 0
    /\ writer' = p
    /\ pc' = [pc EXCEPT ![p] = "g_store"]
    /\ UNCHANGED <<object, readers, args, loc, ret, newCall, pre, history>>
    /\ UNCHANGED caller
    /\ UNCHANGED queue

\* b.Rewards[chosenArm] = newValue
GUpdateStore(p) ==
    /\ pc[p] = "g_store"
    /\ Rewards' = Put(Rewards, args[p].arm, loc[p].newValue)
    /\ pc' = [pc EXCEPT ![p] = "g_unlock"]
    /\ UNCHANGED <<obj, Epsilon, Counts, N, writer, readers, args, loc, ret,
                   newCall, pre, history>>
    /\ UNCHANGED caller
    /\ UNCHANGED queue

\* b.Unlock(); Update returns
GUpdateUnlock(p) ==
    /\ pc[p] = "g_unlock"
    /\ writer' = 0
    /\ gK' = Put(gK, args[p].arm, At(gK, args[p].arm) + 1)
    /\ gSum' = Put(gSum, args[p].arm,
                   FAdd(At(gSum, args[p].arm), args[p].reward))
    /\ Return(p)
    /\ UNCHANGED <<object, readers, newCall, ready, gZero>>
    /\ UNCHANGED caller
    /\ UNCHANGED queue

\* a call that panicked, or SelectArm with its result, returns
GReturn(p) ==
    /\ pc[p] = "g_return"
    /\ Return(p)
    /\ UNCHANGED <<object, writer, readers, newCall, history>>
    /\ UNCHANGED caller
    /\ UNCHANGED queue

\* p calls SelectArm(); b.Lock() returns
GSelectLock(p) ==
    /\ obj = "made" /\ pc[p] = "idle"
    /\ writer = 0
    /\ writer' = p
    /\ pc' = [pc EXCEPT ![p] = "gs_snap"]
    /\ UNCHANGED <<object, readers, args, loc, ret, newCall, pre, history>>
    /\ UNCHANGED caller
    /\ UNCHANGED queue

\* rewards := b.Rewards: the local slice shares the array of b.Rewards
GSelectSnap(p) ==
    /\ pc[p] = "gs_snap"
    /\ loc' = [loc EXCEPT ![p].len = Len(Rewards)]
    /\ pre' = [pre EXCEPT ![p] = Snapshot]
    /\ pc' = [pc EXCEPT ![p] = "gs_unlock"]
    /\ UNCHANGED <<object, writer, readers, args, ret, newCall, history>>
    /\ UNCHANGED caller
    /\ UNCHANGED queue

\* b.Unlock()
GSelectUnlock(p) ==
    /\ pc[p] = "gs_unlock"
    /\ writer' = 0
    /\ pc' = [pc EXCEPT ![p] = "gs_draw"]
    /\ UNCHANGED <<object, readers, args, loc, ret, newCall, pre, history>>
    /\ UNCHANGED caller
    /\ UNCHANGED queue

\* if rand.Float64() > b.Epsilon: exploit with max(rewards...), which starts
\* from element 0; otherwise explore with rand.Intn(len(rewards))
GSelectDraw(p, draw) ==
    /\ pc[p] = "gs_draw"
    /\ IF FGt(draw, Epsilon)
       THEN IF loc[p].len = 0
            \* max of no values: it panics or returns an index
            THEN /\ \/ GPanic(p)
                    \/ /\ ret' = [ret EXCEPT ![p] =
                                     [NoRet EXCEPT !.err = Nil, !.arm = 0]]
                       /\ pc' = [pc EXCEPT ![p] = "g_return"]
                 /\ loc' = [loc EXCEPT ![p].mode = "exploit"]
            ELSE /\ loc' = [loc EXCEPT ![p].mode = "exploit",
                                       ![p].i = 1,
                                       ![p].best = 0,
                                       ![p].bestValue = At(Rewards, 0)]
                 /\ pc' = [pc EXCEPT ![p] = "gs_scan"]
                 /\ UNCHANGED ret
       ELSE /\ loc' = [loc EXCEPT ![p].mode = "explore"]
            /\ IF loc[p].len <= 0
               \* rand.Intn panics if its argument is <= 0
               THEN GPanic(p)
               ELSE /\ \E i \in 0..(loc[p].len - 1) :
                           ret' = [ret EXCEPT ![p] =
                                      [NoRet EXCEPT !.err = Nil, !.arm = i]]
                    /\ pc' = [pc EXCEPT ![p] = "g_return"]
    /\ UNCHANGED <<object, writer, readers, args, newCall, pre, history>>
    /\ UNCHANGED caller
    /\ UNCHANGED queue

\* one round of the loop of max(rewards...): a later value replaces the
\* largest seen so far only when strictly larger
GSelectScan(p) ==
    /\ pc[p] = "gs_scan"
    /\ IF loc[p].i >= loc[p].len
       THEN /\ ret' = [ret EXCEPT ![p] = [NoRet EXCEPT !.err = Nil,
                                                       !.arm = loc[p].best]]
            /\ pc' = [pc EXCEPT ![p] = "g_return"]
            /\ UNCHANGED loc
       ELSE /\ loc' = [loc EXCEPT
                          ![p].i = loc[p].i + 1,
                          ![p].best =
                              IF FGt(At(Rewards, loc[p].i), loc[p].bestValue)
                              THEN loc[p].i ELSE loc[p].best,
                          ![p].bestValue =
                              IF FGt(At(Rewards, loc[p].i), loc[p].bestValue)
                              THEN At(Rewards, loc[p].i)
                              ELSE loc[p].bestValue]
            /\ UNCHANGED <<pc, ret>>
    /\ UNCHANGED <<object, writer, readers, args, newCall, pre, history>>
    /\ UNCHANGED caller
    /\ UNCHANGED queue

NextG ==
    \/ \E n \in GNArmsInputs, e \in GEpsilonInputs : GNewEpsilonGreedy(n, e)
    \/ \E p \in Procs, a \in GArmArgs, r \in GRewardArgs :
           GUpdateCall(p, a, r)
    \/ \E p \in Procs : GUpdateIncRead(p)
    \/ \E p \in Procs : GUpdateIncWrite(p)
    \/ \E p \in Procs : GUpdateReadN(p)
    \/ \E p \in Procs : GUpdateReadV(p)
    \/ \E p \in Procs : GUpdateLock(p)
    \/ \E p \in Procs : GUpdateStore(p)
    \/ \E p \in Procs : GUpdateUnlock(p)
    \/ \E p \in Procs : GReturn(p)
    \/ \E p \in Procs : GSelectLock(p)
    \/ \E p \in Procs : GSelectSnap(p)
    \/ \E p \in Procs : GSelectUnlock(p)
    \/ \E p \in Procs, d \in FloatDraws : GSelectDraw(p, d)
    \/ \E p \in Procs : GSelectScan(p)

SpecG == Init /\ [][NextG]_vars

(***************************************************************************)
(* The RWMutex variant with callers that hold on to slices: the two they   *)
(* passed to NewEpsilonGreedy, and the ones GetCounts and GetRewards       *)
(* returned.  A caller writes to a slice it holds whenever it likes, as it *)
(* needs no lock of the object for its own memory.                         *)
(***************************************************************************)
\* what the callers write into a slice they hold
CallerInts   == {-5}
CallerFloats == {<<9, 1>>}

\* the goroutines that call the methods; the caller's writes to its own
\* slices are steps of their own and interleave with every step of a call
AProcs == {1}

\* what the callers of this variant pass
AEpsilonInputs == {Zero}
ACountInputs   == {Repeat(0, len) : len \in 1..MaxArms}
ARewardInputs  == {Repeat(Zero, len) : len \in 1..MaxArms}
AArmArgs       == 0..(MaxArms - 1)
ARewardArgs    == {One}
ANArmsArgs     == 1..MaxArms

\* the elements of its slices the caller writes to
CallerIndexes == {0}

\* the deferred b.RUnlock(); GetCounts returns and the caller keeps the slice
GetCountsReturnKept(p) ==
    /\ pc[p] = "gc_runlock"
    /\ readers' = readers \ {p}
    /\ kept' = [kept EXCEPT !.counts = ret[p].counts]
    /\ Return(p)
    /\ UNCHANGED <<object, writer, newCall, history, shared>>
    /\ UNCHANGED queue

\* the deferred b.RUnlock(); GetRewards returns and the caller keeps the slice
GetRewardsReturnKept(p) ==
    /\ pc[p] = "gr_runlock"
    /\ readers' = readers \ {p}
    /\ kept' = [kept EXCEPT !.rewards = ret[p].rewards]
    /\ Return(p)
    /\ UNCHANGED <<object, writer, newCall, history, shared>>
    /\ UNCHANGED queue

\* the caller executes counts[i] = v on the slice it passed as counts to
\* NewEpsilonGreedy; Counts: counts (line 98) made it the array of b.Counts
CallerWritesCounts(i, v) ==
    /\ obj = "made" /\ shared.counts
    /\ InRange(i, Counts) /\ At(Counts, i) # v
    /\ Counts' = Put(Counts, i, v)
    /\ UNCHANGED <<obj, Epsilon, Rewards, N, writer, readers, pc, args, loc,
                   ret, newCall, pre, history, caller>>
    /\ UNCHANGED queue

\* the caller executes rewards[i] = v on the slice it passed as rewards to
\* NewEpsilonGreedy; Rewards: rewards (line 97) made it the array of
\* b.Rewards
CallerWritesRewards(i, v) ==
    /\ obj = "made" /\ shared.rewards
    /\ InRange(i, Rewards) /\ At(Rewards, i) # v
    /\ Rewards' = Put(Rewards, i, v)
    /\ UNCHANGED <<obj, Epsilon, Counts, N, writer, readers, pc, args, loc,
                   ret, newCall, pre, history, caller>>
    /\ UNCHANGED queue

\* the caller executes c[i] = v on the slice c it kept from GetCounts
CallerWritesKeptCounts(i, v) ==
    /\ obj = "made"
    /\ InRange(i, Elems(kept.counts, Counts))
    /\ At(Elems(kept.counts, Counts), i) # v
    /\ IF kept.counts.alias
       THEN /\ Counts' = Put(Counts, i, v)
            /\ UNCHANGED kept
       ELSE /\ kept' = [kept EXCEPT !.counts.val = Put(@, i, v)]
            /\ UNCHANGED Counts
    /\ UNCHANGED <<obj, Epsilon, Rewards, N, writer, readers, pc, args, loc,
                   ret, newCall, pre, history, shared>>
    /\ UNCHANGED queue

\* the caller executes r[i] = v on the slice r it kept from GetRewards
CallerWritesKeptRewards(i, v) ==
    /\ obj = "made"
    /\ InRange(i, Elems(kept.rewards, Rewards))
    /\ At(Elems(kept.rewards, Rewards), i) # v
    /\ IF kept.rewards.alias
       THEN /\ Rewards' = Put(Rewards, i, v)
            /\ UNCHANGED kept
       ELSE /\ kept' = [kept EXCEPT !.rewards.val = Put(@, i, v)]
            /\ UNCHANGED Rewards
    /\ UNCHANGED <<obj, Epsilon, Counts, N, writer, readers, pc, args, loc,
                   ret, newCall, pre, history, shared>>
    /\ UNCHANGED queue

NextA ==
    \/ /\ obj = "none"
       /\ \E e \in AEpsilonInputs, c \in ACountInputs, r \in ARewardInputs :
              NewEpsilonGreedyHeld(e, c, r)
    \/ \E p \in AProcs, n \in ANArmsArgs : InitLock(p, n)
    \/ \E p \in AProcs : InitCheck(p)
    \/ \E p \in AProcs : InitCounts(p)
    \/ \E p \in AProcs : InitRewards(p)
    \/ \E p \in AProcs : InitUnlock(p)
    \/ \E p \in AProcs, a \in AArmArgs, r \in ARewardArgs :
           Updates < AMaxCount /\ UpdateLock(p, a, r)
    \/ \E p \in AProcs : UpdateCheck(p)
    \/ \E p \in AProcs : UpdateInc(p)
    \/ \E p \in AProcs : UpdateOld(p)
    \/ \E p \in AProcs : UpdateStore(p)
    \/ \E p \in AProcs : UpdateUnlock(p)
    \/ \E p \in AProcs, d \in DrawArgs : SelectArm(p, d)
    \/ \E p \in AProcs : SelectRUnlock(p)
    \/ \E p \in AProcs : GetCounts(p)
    \/ \E p \in AProcs : GetCountsReturnKept(p)
    \/ \E p \in AProcs : GetRewards(p)
    \/ \E p \in AProcs : GetRewardsReturnKept(p)
    \/ \E i \in CallerIndexes, v \in CallerInts : CallerWritesCounts(i, v)
    \/ \E i \in CallerIndexes, v \in CallerFloats : CallerWritesRewards(i, v)
    \/ \E i \in CallerIndexes, v \in CallerInts : CallerWritesKeptCounts(i, v)
    \/ \E i \in CallerIndexes, v \in CallerFloats : CallerWritesKeptRewards(i, v)

SpecA == Init /\ [][NextA]_vars


(***************************************************************************)
(* The RWMutex variant with the waiting made explicit: a call that finds   *)
(* the lock taken, or another goroutine blocked before it, blocks in Lock  *)
(* or RLock until it is its turn.  sync.RWMutex lets no caller starve (a   *)
(* blocked Lock keeps new readers out, and the readers blocked behind a    *)
(* writer are let in when it unlocks); the model serves the blocked        *)
(* goroutines in the order they arrived.                                   *)
(***************************************************************************)
\* what the callers of this variant pass
WEpsilonInputs == {Zero}
WCountInputs   == {Repeat(0, len) : len \in {0, MaxArms}}
WRewardInputs  == {Repeat(Zero, len) : len \in {0, MaxArms}}
WNArmsArgs     == {0, 1, MaxArms}
WArmArgs       == {1, MaxArms}
WRewardArgs    == {<<-1, 1>>, One}
WDrawArgs      == {One}

\* the call a needs the lock exclusively
Exclusive(a) == a.op \in {"Init", "Update"}

\* p calls the method of a and blocks in b.Lock() or b.RLock(); loc.len
\* records the number of arms at the time of the call
Blocked(p, a) ==
    /\ obj = "made" /\ pc[p] = "idle"
    /\ \/ queue # <<>>
       \/ IF Exclusive(a) THEN ~CanLock ELSE ~CanRLock
    /\ pc' = [pc EXCEPT ![p] = "waiting"]
    /\ args' = [args EXCEPT ![p] = a]
    /\ loc' = [loc EXCEPT ![p].len = Len(Rewards)]
    /\ queue' = Append(queue, p)
    /\ UNCHANGED <<object, writer, readers, ret, newCall, pre, history, caller>>

\* the steps of goroutine p once its call is made (its store of the new mean
\* apart, which SpecL names by its position)
Proceed(p) ==
    \/ pc[p] = "waiting" /\ \E n \in WNArmsArgs : InitLock(p, n)
    \/ InitCheck(p) \/ InitCounts(p) \/ InitRewards(p) \/ InitUnlock(p)
    \/ pc[p] = "waiting" /\ \E a \in WArmArgs, r \in WRewardArgs :
                                UpdateLock(p, a, r)
    \/ UpdateCheck(p) \/ UpdateInc(p) \/ UpdateOld(p)
    \/ UpdateUnlock(p)
    \/ pc[p] = "waiting" /\ \E d \in WDrawArgs : SelectArm(p, d)
    \/ SelectRUnlock(p)
    \/ pc[p] = "waiting" /\ GetCounts(p)
    \/ GetCountsRUnlock(p)
    \/ pc[p] = "waiting" /\ GetRewards(p)
    \/ GetRewardsRUnlock(p)

NextW ==
    \/ /\ obj = "none"
       /\ \E e \in WEpsilonInputs, c \in WCountInputs, r \in WRewardInputs :
              NewEpsilonGreedy(e, c, r)
    \/ \E p \in Procs, n \in WNArmsArgs : InitLock(p, n)
    \/ \E p \in Procs, n \in WNArmsArgs : Blocked(p, InitArgs(n))
    \/ \E p \in Procs : InitCheck(p)
    \/ \E p \in Procs : InitCounts(p)
    \/ \E p \in Procs : InitRewards(p)
    \/ \E p \in Procs : InitUnlock(p)
    \/ \E p \in Procs, a \in WArmArgs, r \in WRewardArgs :
           UpdateLock(p, a, r)
    \/ \E p \in Procs, a \in WArmArgs, r \in WRewardArgs :
           MayUpdate(a) /\ Blocked(p, UpdateArgs(a, r))
    \/ \E p \in Procs : UpdateCheck(p)
    \/ \E p \in Procs : UpdateInc(p)
    \/ \E p \in Procs : UpdateOld(p)
    \/ \E p \in Procs : UpdateStore(p)
    \/ \E p \in Procs : UpdateUnlock(p)
    \/ \E p \in Procs, d \in WDrawArgs : SelectArm(p, d)
    \/ \E p \in Procs, d \in WDrawArgs : Blocked(p, SelectArgs(d))
    \/ \E p \in Procs : SelectRUnlock(p)
    \/ \E p \in Procs : GetCounts(p)
    \/ \E p \in Procs : Blocked(p, GetCountsArgs)
    \/ \E p \in Procs : GetCountsRUnlock(p)
    \/ \E p \in Procs : GetRewards(p)
    \/ \E p \in Procs : Blocked(p, GetRewardsArgs)
    \/ \E p \in Procs : GetRewardsRUnlock(p)

SpecW == Init /\ [][NextW]_vars

\* the scheduler lets every goroutine that can take a step take one; the
\* store of Update (line 61) is a step its goroutine can always take, so
\* that its fairness is that no goroutine stays in front of it for ever
SpecL ==
    /\ SpecW
    /\ \A p \in Procs : WF_vars(Proceed(p))
    /\ \A p \in Procs : []<>(pc[p] # "upd_store")


(***************************************************************************)
(* Properties.                                                             *)
(***************************************************************************)
\* no call of Init is between taking and releasing the lock
NoInitRunning ==
    \A p \in Procs : pc[p] \notin {"init_check", "init_counts", "init_rewards",
                                   "init_unlock"}

\* every call of Update on slice index i-1 has returned, and no Init runs
Quiet(i) == NoInitRunning /\ Updating(i - 1) = {}

\* the arithmetic mean of the rewards of the k calls that returned nil
MeanOf(sum, k) == IF k = 0 THEN Zero ELSE FDiv(sum, ToFloat(k))

\* C1 (RWMutex variant): once M >= 1 Update(i, 1.0) calls, in any
\* interleaving, have all returned on an arm that started at count 0 and mean
\* 0, the arm's count is M and its mean reward is 1.0: no update is lost.
\* (The rewards passed are at most 1, so their sum is M exactly when each
\* of them is 1.)
ThmC1_NoLostUpdate ==
    \A i \in 1..Len(gK) :
        (/\ gZero[i] /\ Quiet(i)
         /\ gK[i] >= 1
         /\ gSum[i] = ToFloat(gK[i]))
        => /\ i <= Len(Counts) /\ Counts[i] = gK[i]
           /\ i <= Len(Rewards) /\ Rewards[i] = One

WitC1_AllOnes ==
    \E i \in 1..Len(gK) :
        /\ gZero[i] /\ Quiet(i)
        /\ gK[i] >= 2 /\ gSum[i] = ToFloat(gK[i])
        /\ Counts[i] = gK[i] /\ Rewards[i] = One

\* C2 (Mutex variant): once every Update call has returned, each arm's count
\* is the number of Update calls made on it and its mean reward is the
\* arithmetic mean of their rewards.
CexC2_MutexUpdateAtomic ==
    (\A p \in Procs : pc[p] = "idle")
    => \A i \in 1..Len(gK) :
           /\ Counts[i] = gK[i]
           /\ Rewards[i] = MeanOf(gSum[i], gK[i])

\* C3: for an arm that started at count 0 and mean 0, once the Update calls
\* made on it have returned, its count is their number k and its mean reward
\* is the sum of their rewards divided by k, whatever was done to the other
\* arms; and each successful Update leaves newMean * n = oldMean * (n-1) +
\* reward with n the count after the increment.
ThmC3_RunningMean ==
    /\ \A i \in 1..Len(gK) :
           (gZero[i] /\ Quiet(i))
           => /\ i <= Len(Counts) /\ Counts[i] = gK[i]
              /\ i <= Len(Rewards) /\ Rewards[i] = MeanOf(gSum[i], gK[i])
    /\ \A p \in Procs :
           (/\ pc[p] = "upd_unlock" /\ ret[p].err = Nil
            /\ InRange(args[p].arm, gZero) /\ At(gZero, args[p].arm))
           => LET a == args[p].arm
                  n == At(Counts, a)
              IN  /\ n = At(pre[p].Counts, a) + 1
                  /\ FMul(At(Rewards, a), ToFloat(n))
                       = FAdd(FMul(At(pre[p].Rewards, a), ToFloat(n - 1)),
                              args[p].reward)

WitC3_TwoArms ==
    \E i, j \in 1..Len(gK) :
        /\ i # j
        /\ gZero[i] /\ Quiet(i)
        /\ gK[i] = 2 /\ gSum[i] = One /\ Rewards[i] = Half
        /\ gK[j] >= 1

\* C4: an Update whose index is below 0 or not below the number of arms
\* returns ErrArmsIndexOutOfRange, whatever the reward, and leaves the
\* counts, the mean rewards and epsilon as they were when it took the lock.
ThmC4_IndexOutOfRange ==
    \A p \in Procs :
        (/\ pc[p] = "upd_unlock"
         /\ (args[p].arm < 0 \/ args[p].arm >= Len(pre[p].Rewards)))
        => /\ ret[p].err = ErrArmsIndexOutOfRange
           /\ Snapshot = pre[p]

WitC4_IndexIsN ==
    \E p \in Procs :
        /\ pc[p] = "upd_unlock"
        /\ Len(Rewards) >= 1 /\ args[p].arm = Len(Rewards)
        /\ FLt(args[p].reward, Zero)
        /\ ret[p].err = ErrArmsIndexOutOfRange
        /\ \E i \in 1..Len(Counts) : Counts[i] >= 1

\* C5: an Update with a valid index and a negative reward returns
\* ErrInvalidReward and leaves the counts (the arm's own count too), the
\* mean rewards and epsilon as they were when it took the lock.
ThmC5_InvalidReward ==
    \A p \in Procs :
        (/\ pc[p] = "upd_unlock"
         /\ InRange(args[p].arm, pre[p].Rewards)
         /\ FLt(args[p].reward, Zero))
        => /\ ret[p].err = ErrInvalidReward
           /\ Snapshot = pre[p]

WitC5_NegativeReward ==
    \E p \in Procs :
        /\ pc[p] = "upd_unlock"
        /\ InRange(args[p].arm, Rewards)
        /\ FLt(args[p].reward, Zero)
        /\ ret[p].err = ErrInvalidReward
        /\ At(Counts, args[p].arm) >= 1

\* no mean reward is NaN
NoNaN == \A j \in 1..Len(Rewards) : ~IsNaN(Rewards[j])

\* C6: SelectArm exploits exactly when the draw is above epsilon and explores
\* exactly when it is at most epsilon; when it exploits (and every mean is a
\* number) the arm it returns has a mean no other arm exceeds, and every arm
\* of a lower index has a smaller mean.
ThmC6_DecisionRule ==
    \A p \in Procs :
        pc[p] = "sel_runlock"
        => /\ loc[p].mode = "exploit" <=> FGt(args[p].prob, Epsilon)
           /\ loc[p].mode = "explore" <=> FLe(args[p].prob, Epsilon)
           /\ (loc[p].mode = "exploit" /\ Len(Rewards) >= 1 /\ NoNaN)
              => /\ ret[p].err = Nil
                 /\ InRange(ret[p].arm, Rewards)
                 /\ \A j \in 0..(Len(Rewards) - 1) :
                        FLe(At(Rewards, j), At(Rewards, ret[p].arm))
                 /\ \A j \in 0..(ret[p].arm - 1) :
                        FLt(At(Rewards, j), At(Rewards, ret[p].arm))

WitC6_TieAtEpsilon ==
    \E p, q \in Procs :
        /\ p # q
        /\ pc[p] = "sel_runlock" /\ pc[q] = "sel_runlock"
        /\ Len(Rewards) = 2 /\ Rewards[1] = Rewards[2] /\ Rewards[1] = One
        /\ Epsilon = Zero
        /\ args[p].prob = Zero /\ loc[p].mode = "explore"
        /\ args[q].prob = One /\ loc[q].mode = "exploit" /\ ret[q].arm = 0

\* C7: after a successful NewEpsilonGreedy or Init, SelectArm returns an
\* index in [0, N) for every draw and never panics.
CexC7_SelectArmInRange ==
    \A p \in Procs :
        (pc[p] = "sel_runlock" /\ ready)
        => /\ ret[p].err = Nil
           /\ InRange(ret[p].arm, Rewards)

\* C8: no state that NewEpsilonGreedy or Init has set up successfully has
\* zero arms, and an Init that returns nil was given at least one arm.
CexC8_NoZeroArms ==
    /\ (ready /\ NoInitRunning) => (Len(Counts) >= 1 /\ Len(Rewards) >= 1)
    /\ \A p \in Procs :
           (pc[p] = "init_unlock" /\ ret[p].err = Nil) => args[p].nArms >= 1

\* C9: NewEpsilonGreedy returns ErrInvalidEpsilon, and no state, exactly when
\* epsilon is below 0 or above 1; in every state of the object epsilon lies
\* in [0, 1] and is the value it was constructed with.
ThmC9_EpsilonFixed ==
    /\ newCall.err # ""
       => (newCall.err = ErrInvalidEpsilon
             <=> (FLt(newCall.epsilon, Zero) \/ FGt(newCall.epsilon, One)))
    /\ newCall.err = ErrInvalidEpsilon => obj = "none"
    /\ obj = "made" => (FLe(Zero, Epsilon) /\ FLe(Epsilon, One))
    /\ newCall.err = Nil => Epsilon = newCall.epsilon
    /\ (obj = "made" /\ newCall.err # Nil) => Epsilon = Zero

WitC9_UpperBoundKept ==
    /\ newCall.err = Nil /\ newCall.epsilon = One /\ Epsilon = One
    /\ \E i \in 1..Len(gK) : gK[i] >= 1
    /\ \E p \in Procs : pc[p] = "sel_runlock"
    /\ \E p \in Procs : pc[p] = "gc_runlock"

\* C10: NewEpsilonGreedy with a valid epsilon returns ErrInvalidLength, and
\* no state, exactly when the counts and the rewards differ in length; and
\* outside the two assignments of a running Init the object's Counts and
\* Rewards have the same length.
ThmC10_EqualLengths ==
    /\ (newCall.err # "" /\ ~FLt(newCall.epsilon, Zero)
                         /\ ~FGt(newCall.epsilon, One))
       => (newCall.err = ErrInvalidLength <=> newCall.mismatch)
    /\ newCall.err = ErrInvalidLength => obj = "none"
    /\ (\A p \in Procs : pc[p] # "init_rewards")
       => Len(Counts) = Len(Rewards)

WitC10_InitChangesN ==
    \E p \in Procs :
        /\ pc[p] = "init_unlock" /\ ret[p].err = Nil
        /\ Len(pre[p].Counts) >= 1
        /\ Len(Counts) > Len(pre[p].Counts)
        /\ Len(Counts) = Len(Rewards)
        /\ newCall.err = Nil

\* C11: every count of the object is at least 0 in every state.  (The other
\* half of the claim, that no step lowers a count and an Update raises it by
\* exactly 1, is CountsOnlyIncrement below.)
CexC11_CountsNonNegative ==
    obj = "made" => \A i \in 1..Len(Counts) : Counts[i] >= 0

\* between two (re)initialisations no step lowers a count, and a step that
\* changes one is the increment of an Update, by exactly 1
CountsOnlyIncrement ==
    [][(obj = "made" /\ \A p \in Procs : pc'[p] # "init_rewards")
       => /\ Len(Counts') = Len(Counts)
          /\ \A i \in 1..Len(Counts) :
                 \/ Counts'[i] = Counts[i]
                 \/ /\ Counts'[i] = Counts[i] + 1
                    /\ \E p \in Procs : /\ pc[p] = "upd_inc"
                                        /\ pc'[p] = "upd_old"
                                        /\ args[p].arm = i - 1]_vars

\* C12: an Init(nArms) with nArms >= 1 returns nil from whatever state it
\* found, and leaves exactly nArms counts of 0 and nArms mean rewards of 0
\* with epsilon as it was; an Init(nArms) with nArms < 1 returns
\* ErrInvalidArms and leaves counts, mean rewards and epsilon as it found them.
ThmC12_InitAllOrNothing ==
    \A p \in Procs :
        pc[p] = "init_unlock"
        => IF args[p].nArms >= 1
           THEN /\ ret[p].err = Nil
                /\ Counts = [i \in 1..args[p].nArms |-> 0]
                /\ Rewards = [i \in 1..args[p].nArms |-> Zero]
                /\ Epsilon = pre[p].Epsilon
           ELSE /\ ret[p].err = ErrInvalidArms
                /\ Snapshot = pre[p]

WitC12_StatisticsDiscarded ==
    \E p \in Procs :
        /\ pc[p] = "init_unlock" /\ ret[p].err = Nil
        /\ args[p].nArms = 1
        /\ Len(pre[p].Counts) = 2
        /\ \E i \in 1..2 : pre[p].Counts[i] >= 1 /\ pre[p].Rewards[i] # Zero
        /\ Counts = <<0>> /\ Rewards = <<Zero>>

\* C15: an Update(i, reward) that returns nil leaves the count and the mean
\* reward of every arm other than i, epsilon and the number of arms as they
\* were when it took the lock, and has changed the count of arm i.
ThmC15_OnlyTheArm ==
    \A p \in Procs :
        (pc[p] = "upd_unlock" /\ ret[p].err = Nil)
        => /\ Epsilon = pre[p].Epsilon
           /\ Len(Counts) = Len(pre[p].Counts)
           /\ Len(Rewards) = Len(pre[p].Rewards)
           /\ InRange(args[p].arm, Counts)
           /\ At(Counts, args[p].arm) # At(pre[p].Counts, args[p].arm)
           /\ \A j \in 1..Len(Counts) :
                  j # args[p].arm + 1
                  => /\ Counts[j] = pre[p].Counts[j]
                     /\ Rewards[j] = pre[p].Rewards[j]

WitC15_OtherArmKept ==
    \E p \in Procs :
        /\ pc[p] = "upd_unlock" /\ ret[p].err = Nil
        /\ args[p].arm = 1 /\ Len(Counts) = 2
        /\ Counts[1] >= 1 /\ Rewards[1] = One
        /\ Rewards[2] # pre[p].Rewards[2]

\* the elements of the slices the caller kept of GetCounts and GetRewards
KeptCounts  == Elems(kept.counts, Counts)
KeptRewards == Elems(kept.rewards, Rewards)

\* C13: what GetCounts and GetRewards return has the elements Counts and
\* Rewards had when the call took the lock; a caller's write to a slice it kept of them leaves
\* epsilon, the counts and the mean rewards of the object as they were (so
\* every later GetCounts, GetRewards and SelectArm answers as it would have);
\* and no step of a method (an Update above all) changes the elements of a
\* slice the caller kept.
ThmC13_IndependentCopies ==
    /\ [](\A p \in Procs :
             /\ pc[p] = "gc_runlock"
                => Elems(ret[p].counts, pre[p].Counts) = pre[p].Counts
             /\ pc[p] = "gr_runlock"
                => Elems(ret[p].rewards, pre[p].Rewards) = pre[p].Rewards)
    /\ [][((\E i \in CallerIndexes, v \in CallerInts :
                CallerWritesKeptCounts(i, v))
           \/ (\E i \in CallerIndexes, v \in CallerFloats :
                CallerWritesKeptRewards(i, v)))
          => UNCHANGED <<Epsilon, Counts, Rewards>>]_vars
    /\ [][(\A p \in Procs : pc[p] \notin {"gc_runlock", "gr_runlock"})
          => (pc' # pc => /\ KeptCounts' = KeptCounts
                          /\ KeptRewards' = KeptRewards)]_vars

WitC13_WrittenCopyAndUpdate ==
    /\ ~kept.counts.alias /\ ~kept.rewards.alias
    /\ Len(kept.counts.val) >= 1 /\ kept.counts.val[1] = -5
    /\ Len(kept.rewards.val) >= 1 /\ kept.rewards.val[1] = <<9, 1>>
    /\ Len(Counts) >= 1 /\ Counts[1] = 1 /\ Rewards[1] = One
    /\ \E p \in Procs : /\ pc[p] = "gc_runlock"
                        /\ ret[p].counts.val = Counts

\* C14: no slice a caller holds shares its array with the object: a step in
\* which no goroutine moves (the caller writing to one of its slices) leaves
\* the counts and the mean rewards of the object as they were.
CexC14_NoCallerAlias ==
    [][(obj = "made" /\ pc' = pc) => UNCHANGED <<Counts, Rewards>>]_vars

\* C16: the two steps of a SelectArm call, the one that takes the shared lock
\* and selects (exploring or exploiting) and the one that releases the lock
\* and returns, leave the counts, the mean rewards, epsilon and N as they
\* were; and so does everything else between them.
ThmC16_SelectArmReadOnly ==
    /\ [](\A p \in Procs : pc[p] = "sel_runlock" => Snapshot = pre[p])
    /\ [][\A p \in Procs :
              (\/ pc[p] = "idle" /\ pc'[p] = "sel_runlock"
               \/ pc[p] = "sel_runlock" /\ pc'[p] = "idle")
              => UNCHANGED <<Epsilon, Counts, Rewards, N>>]_vars

WitC16_BothBranches ==
    \E p, q \in Procs :
        /\ pc[p] = "sel_runlock" /\ loc[p].mode = "exploit"
        /\ pc[q] = "sel_runlock" /\ loc[q].mode = "explore"
        /\ ret[p].err = Nil /\ ret[q].err = Nil
        /\ ret[p].arm = 1 /\ ret[q].arm = 0
        /\ Counts = <<0, 2>>

\* where a call of Update or Init is between taking and releasing the lock
Mutating ==
    {"init_check", "init_counts", "init_rewards", "init_unlock", "upd_check",
     "upd_inc", "upd_old", "upd_store", "upd_unlock"}

\* C17 (RWMutex variant): while a SelectArm, GetCounts or GetRewards holds the
\* shared lock no Update and no Init is between its Lock and its Unlock, and
\* the counts and mean rewards are those the call found when it took the
\* lock: what GetCounts and GetRewards return is the copy of that one state,
\* in which the two sequences have the same length and (for an arm that
\* started at 0) every counted update is in the mean.
ThmC17_ReadersSeeCompleteState ==
    \A p \in Procs :
        pc[p] \in {"sel_runlock", "gc_runlock", "gr_runlock"}
        => /\ writer = 0
           /\ \A q \in Procs : pc[q] \notin Mutating
           /\ Snapshot = pre[p]
           /\ Len(Counts) = Len(Rewards)
           /\ pc[p] = "gc_runlock" => ret[p].counts.val = pre[p].Counts
           /\ pc[p] = "gr_runlock" => ret[p].rewards.val = pre[p].Rewards
           /\ \A i \in 1..Len(gK) :
                  gZero[i] => /\ Counts[i] = gK[i]
                              /\ Rewards[i] = MeanOf(gSum[i], gK[i])

WitC17_ReadersAfterUpdates ==
    \E p, q \in Procs :
        /\ pc[p] = "gr_runlock" /\ pc[q] = "sel_runlock"
        /\ loc[q].mode = "exploit" /\ ret[q].arm = 1
        /\ Counts = <<1, 2>> /\ Rewards = <<Zero, Half>>
        /\ ret[p].rewards.val = Rewards

\* C18 (Mutex variant): the arm SelectArm returns when it exploits is the
\* first largest of the mean rewards as they were when it read b.Rewards
\* under the lock, whatever Update stores while it scans.
CexC18_MutexSnapshot ==
    \A p \in Procs :
        (/\ pc[p] = "g_return" /\ loc[p].mode = "exploit"
         /\ ret[p].err = Nil /\ loc[p].len >= 1)
        => ret[p].arm = maxScan(pre[p].Rewards, 1, 0)

\* the goroutines inside a method that holds the lock exclusively (shared)
Writing == {p \in Procs : pc[p] \in Mutating}
Reading == {p \in Procs : pc[p] \in {"sel_runlock", "gc_runlock", "gr_runlock"}}

\* C19 (RWMutex variant, fair scheduling): every call of Init, SelectArm,
\* Update, GetCounts and GetRewards that has been made, blocked or not,
\* returns in the end (a call that panics unwinds, and that counts as its
\* return); and the lock is held by exactly the goroutines that are inside
\* a method, so that every return, the error returns of Init and Update
\* too, has released it, and a blocked goroutine is never left waiting for
\* a lock nobody will release.
ThmC19_EveryCallReturns ==
    /\ \A p \in Procs : (pc[p] # "idle") ~> (pc[p] = "idle")
    /\ [](/\ readers = Reading
          /\ writer = 0 => Writing = {}
          /\ writer # 0 => Writing = {writer}
          /\ \A p \in Procs : pc[p] = "waiting" <=> (\E i \in 1..Len(queue) :
                                                       queue[i] = p))

WitC19_BlockedBehindErrors ==
    \E p, q \in Procs :
        /\ pc[p] = "waiting" /\ args[p].op = "Update"
        /\ pc[q] = "init_unlock" /\ ret[q].err = ErrInvalidArms
        /\ writer = q /\ queue = <<p>>

\* the positions of a call of Update between Lock and Unlock
InUpdate == {"upd_check", "upd_inc", "upd_old", "upd_store", "upd_unlock"}

\* C20 (RWMutex variant): an Update that runs while Init calls change the
\* number of arms never indexes outside the sequences (no panic): from its
\* Lock to its Unlock no Init runs and the sequences keep the length it
\* checked its index against; it returns ErrArmsIndexOutOfRange exactly when
\* the index is outside the sequences as they are when it holds the lock,
\* whatever they were when it was called, and then changes nothing;
\* otherwise it returns nil and has raised the count of its arm by 1 in
\* sequences of the same length, or ErrInvalidReward with nothing changed.
ThmC20_UpdateAgainstCurrentN ==
    \A p \in Procs :
        pc[p] \in InUpdate
        => /\ ret[p].err # Panic
           /\ NoInitRunning /\ writer = p
           /\ Len(Counts) = Len(pre[p].Counts)
           /\ Len(Rewards) = Len(pre[p].Rewards)
           /\ Len(Counts) = Len(Rewards)
           /\ pc[p] = "upd_unlock"
              => /\ ret[p].err = ErrArmsIndexOutOfRange
                    <=> ~InRange(args[p].arm, Rewards)
                 /\ ret[p].err \in {ErrArmsIndexOutOfRange, ErrInvalidReward,
                                    Nil}
                 /\ ret[p].err # Nil => Snapshot = pre[p]
                 /\ ret[p].err = Nil
                    => At(Counts, args[p].arm)
                         = At(pre[p].Counts, args[p].arm) + 1

WitC20_IndexValidWhenCalled ==
    \E p \in Procs :
        /\ pc[p] = "upd_unlock"
        /\ args[p].arm = 1 /\ loc[p].len = 2 /\ Len(Rewards) = 1
        /\ ret[p].err = ErrArmsIndexOutOfRange

=============================================================================
